---- MODULE Spec2Model ----
(***************************************************************************)
(* Model of the file-explorer index core (src-tauri/src/main.rs): the      *)
(* SQLite table main_table behind one Mutex<Connection>, the crawler       *)
(* transfer_to_sqlite and the queries list_children, search_files,         *)
(* get_directory_size and database_has_files.                              *)
(*                                                                         *)
(* A string is a sequence of one-character strings, so that trimming,      *)
(* separator counting, escaping and SQLite's LIKE are computed character   *)
(* by character.  main_table is a bag of rows.                             *)
(***************************************************************************)
EXTENDS Integers, Sequences, FiniteSets, Bags, TLC

VARIABLES
    fs,        \* the filesystem: path -> entry (kind, size, mtime, statOk)
    db,        \* committed content of main_table (a bag of FileMeta rows)
    tx,        \* the connection's open transaction: [active, data]
    holder,    \* owner of the MutexGuard of DbConnection, or NoProc
    pc,        \* per command invocation: position in its handler
    op,        \* per command invocation: the command and its arguments
    ret,       \* per command invocation: the value the handler returns
    queue,     \* per crawl: entries the WalkDir iterator has yet to yield
    hist,      \* per crawl: what this crawl did (observation only)
    last       \* the previous completed crawl (observation only)

vars == <<fs, db, tx, holder, pc, op, ret, queue, hist, last>>

----------------------------------------------------------------------------
(* Bounds *)

MaxSize == 2        \* file sizes on disk range over 1..MaxSize
MaxTime == 1        \* modification times on disk range over 0..MaxTime
MaxRecords == 4     \* rows of the index in the query specification

----------------------------------------------------------------------------
(* Characters and strings *)

SEP == "\\"
NoEscape == ""

Uppers == <<"A","B","C","D","E","F","G","H","I","J","K","L","M",
            "N","O","P","Q","R","S","T","U","V","W","X","Y","Z">>
Lowers == <<"a","b","c","d","e","f","g","h","i","j","k","l","m",
            "n","o","p","q","r","s","t","u","v","w","x","y","z">>

\* sqlite3Tolower on an ASCII character
Lower(c) ==
    IF \E i \in DOMAIN Uppers : Uppers[i] = c
    THEN Lowers[CHOOSE i \in DOMAIN Uppers : Uppers[i] = c]
    ELSE c

Drop(s, n) == SubSeq(s, n + 1, Len(s))

\* str::contains / the position test behind it
StartsWith(s, k) == Len(k) <= Len(s) /\ SubSeq(s, 1, Len(k)) = k

Contains(s, k) ==
    \E i \in 0..(Len(s) - Len(k)) : SubSeq(s, i + 1, i + Len(k)) = k

\* dir.trim_end_matches('\\'): every trailing separator is removed
RECURSIVE TrimEndMatches(_)
TrimEndMatches(s) ==
    IF Len(s) > 0 /\ s[Len(s)] = SEP
    THEN TrimEndMatches(SubSeq(s, 1, Len(s) - 1))
    ELSE s

\* norm_dir.matches('\\').count(), and LENGTH(path) - LENGTH(REPLACE(path,'\',''))
CountSep(s) == Cardinality({i \in DOMAIN s : s[i] = SEP})

\* norm_dir.replace("\\", "\\\\"): every separator is doubled
RECURSIVE EscapeSep(_)
EscapeSep(s) ==
    IF s = <<>> THEN <<>>
    ELSE (IF s[1] = SEP THEN <<SEP, SEP>> ELSE <<s[1]>>) \o EscapeSep(Tail(s))

\* format!("{}\\%", ...): the escaped directory followed by the two
\* characters backslash and percent
LikePattern(norm_dir) == EscapeSep(norm_dir) \o <<SEP, "%">>

\* SQLite's LIKE (patternCompare with noCase): '%' matches any run of
\* characters, '_' any one character, the character after the escape
\* character stands for itself, and ASCII letters compare without case.
RECURSIVE Like(_, _, _)
Like(pat, str, esc) ==
    IF pat = <<>> THEN str = <<>>
    ELSE IF esc # NoEscape /\ pat[1] = esc
    THEN /\ Len(pat) >= 2
         /\ str # <<>>
         /\ Lower(pat[2]) = Lower(str[1])
         /\ Like(Drop(pat, 2), Tail(str), esc)
    ELSE IF pat[1] = "%"
    THEN \/ Like(Tail(pat), str, esc)
         \/ str # <<>> /\ Like(pat, Tail(str), esc)
    ELSE IF pat[1] = "_"
    THEN str # <<>> /\ Like(Tail(pat), Tail(str), esc)
    ELSE /\ str # <<>>
         /\ Lower(pat[1]) = Lower(str[1])
         /\ Like(Tail(pat), Tail(str), esc)

----------------------------------------------------------------------------
(* FileMeta and the metadata extractor *)

\* Option<String>: None is <<>>, Some(s) is <<s>>
None == <<>>
Some(s) == <<s>>

LastIndexOf(s, c) ==
    IF \E i \in DOMAIN s : s[i] = c
    THEN CHOOSE i \in DOMAIN s : s[i] = c /\ \A j \in DOMAIN s : s[j] = c => j <= i
    ELSE 0

\* Path::file_name: the final component
FileName(path) == Drop(path, LastIndexOf(path, SEP))

\* Path::extension: what follows the last '.' of the file name; None when
\* there is no '.' or the name begins with its only '.'
Extension(path) ==
    LET name == FileName(path)
        dot  == LastIndexOf(name, ".")
    IN  IF dot <= 1 THEN None ELSE Some(Drop(name, dot))

\* duration_since(UNIX_EPOCH).unwrap_or_default().as_secs()
ModifiedSecs(mtime) == IF mtime < 0 THEN 0 ELSE mtime

FileMeta(path, size, mtime) ==
    [name      |-> FileName(path),
     path      |-> path,
     extension |-> Extension(path),
     size      |-> size,
     modified  |-> ModifiedSecs(mtime)]

\* get_file_meta: fs::metadata(path)? fails when the path cannot be stat'ed
GetFileMeta(f, path) ==
    IF f[path].statOk
    THEN [ok |-> TRUE,  meta |-> FileMeta(path, f[path].size, f[path].mtime)]
    ELSE [ok |-> FALSE, meta |-> FileMeta(path, 0, 0)]

----------------------------------------------------------------------------
(* main_table *)

\* CREATE TABLE IF NOT EXISTS main_table (...): a new database has no rows
CreateTable == EmptyBag

Rows(table) == BagToSet(table)

PathsOf(table) == {r.path : r \in Rows(table)}

\* the rows S of table, with their multiplicities
SelectRows(table, S) == [r \in S |-> table[r]]

\* plain INSERT into a table without the UNIQUE constraint
InsertNoReplace(table, file) == table (+) SetToBag({file})

\* INSERT OR IGNORE: a row whose path is already present is left as it is
InsertOrIgnore(table, file) ==
    IF file.path \in PathsOf(table) THEN table ELSE table (+) SetToBag({file})

\* insert_file_meta: INSERT OR REPLACE on the UNIQUE column path deletes
\* the row with the same path, then inserts the new row
InsertFileMeta(table, file) ==
    SelectRows(table, {r \in Rows(table) : r.path # file.path}) (+) SetToBag({file})

\* list_children: the SELECT with LIKE ?1 ESCAPE '\' and the separator count
ListChildren(view, dir) ==
    LET norm_dir           == TrimEndMatches(dir)
        slash_count        == CountSep(norm_dir)
        target_slash_count == slash_count + 1
        like_pattern       == LikePattern(norm_dir)
    IN  SelectRows(view, {r \in Rows(view) :
            /\ Like(like_pattern, r.path, SEP)
            /\ CountSep(r.path) = target_slash_count})

\* search_files: name LIKE '%' || name || '%', and extension = ?2 when the
\* extension argument is not empty
SearchFiles(view, name, extension) ==
    LET pattern == <<"%">> \o name \o <<"%">>
    IN  IF extension # <<>>
        THEN SelectRows(view, {r \in Rows(view) :
                 /\ Like(pattern, r.name, NoEscape)
                 /\ r.extension = Some(extension)})
        ELSE SelectRows(view, {r \in Rows(view) : Like(pattern, r.name, NoEscape)})

RECURSIVE SumSize(_, _)
SumSize(table, S) ==
    IF S = {} THEN 0
    ELSE LET r == CHOOSE x \in S : TRUE
         IN  r.size * table[r] + SumSize(table, S \ {r})

\* get_directory_size: COALESCE(SUM(size), 0) WHERE path LIKE ?1 || '%'
GetDirectorySize(view, path) ==
    LET pattern == path \o <<"%">>
    IN  SumSize(view, {r \in Rows(view) : Like(pattern, r.path, NoEscape)})

\* database_has_files: SELECT COUNT(*) FROM main_table, then count > 0
DatabaseHasFiles(view) == BagCardinality(view) > 0

----------------------------------------------------------------------------
(* The filesystem tree that is crawled *)

R   == <<"r">>
RD  == <<"r", SEP, "d">>
RDB == <<"r", SEP, "d", SEP, "b", ".", "t">>
RL  == <<"r", SEP, "l">>
RO  == <<"r", SEP, "O", "n", "e", "D", "r", "i", "v", "e">>
ROX == <<"r", SEP, "O", "n", "e", "D", "r", "i", "v", "e", SEP, "x">>

FsPaths == {R, RD, RDB, RL, RO, ROX}

\* directory order of the entries of each directory
ChildrenOf(path) ==
    IF path = R THEN <<RD, RL, RO>>
    ELSE IF path = RD THEN <<RDB>>
    ELSE IF path = RO THEN <<ROX>>
    ELSE <<>>

\* the file whose state on disk changes while the program runs
MutableFiles == {RDB}

\* the roots the crawl command is invoked on (overlapping subtrees)
CrawlRoots == {R, RD}

Dir     == [kind |-> "dir",     size |-> 0, mtime |-> 0, statOk |-> TRUE]
Symlink == [kind |-> "symlink", size |-> 0, mtime |-> 0, statOk |-> TRUE]
Absent  == [kind |-> "absent",  size |-> 0, mtime |-> 0, statOk |-> FALSE]
\* an entry that is listed by its directory but cannot be stat'ed
Denied  == [kind |-> "file",    size |-> 0, mtime |-> 0, statOk |-> FALSE]
File(size, mtime) ==
    [kind |-> "file", size |-> size, mtime |-> mtime, statOk |-> TRUE]

FileStates ==
    {Absent, Denied} \cup {File(s, m) : s \in 1..MaxSize, m \in 0..MaxTime}

InitialFs ==
    [p \in FsPaths |->
        IF p \in {R, RD, RO} THEN Dir
        ELSE IF p = RL THEN Symlink
        ELSE File(1, 0)]

\* let skip_keywords = ["CloudStore", "OneDrive", "System Volume Information"]
skip_keywords ==
    { <<"C","l","o","u","d","S","t","o","r","e">>,
      <<"O","n","e","D","r","i","v","e">>,
      <<"S","y","s","t","e","m"," ","V","o","l","u","m","e"," ",
        "I","n","f","o","r","m","a","t","i","o","n">> }

\* skip_keywords.iter().any(|k| path_str.contains(k))
IsSkipped(path) == \E k \in skip_keywords : Contains(path, k)

\* a walk that yields the root and does not descend
WalkRootOnly(f, path) ==
    <<[ok |-> f[path].kind # "absent", path |-> path, file_type |-> f[path].kind]>>

RECURSIVE WalkEntries(_, _)
WalkEntries(f, paths) ==
    IF paths = <<>> THEN <<>>
    ELSE LET e    == Head(paths)
             here == IF f[e].kind = "absent" THEN <<>>
                     ELSE <<[ok |-> TRUE, path |-> e, file_type |-> f[e].kind]>>
             below == IF f[e].kind = "dir" THEN WalkEntries(f, ChildrenOf(e))
                      ELSE <<>>
         IN  here \o below \o WalkEntries(f, Tail(paths))

\* WalkDir::new(path).follow_links(false): the root, then, for a directory,
\* the walk of each entry it lists; a symbolic link is yielded, not followed.
\* A root that does not exist is yielded as an error.
WalkDir(f, path) ==
    IF f[path].kind = "absent"
    THEN <<[ok |-> FALSE, path |-> path, file_type |-> "absent"]>>
    ELSE WalkEntries(f, <<path>>)

----------------------------------------------------------------------------
(* Command invocations *)

Procs  == {"p1", "p2"}
NoProc == "none"

Command(cmd, path, frag, ext) ==
    [cmd |-> cmd, path |-> path, frag |-> frag, ext |-> ext]

NoCommand == Command("none", <<>>, <<>>, <<>>)

IsCrawl(o) == o.cmd = "transfer_to_sqlite"

\* the invocations of the crawl specification
Commands ==
    {Command("transfer_to_sqlite", r, <<>>, <<>>) : r \in CrawlRoots}
    \cup {Command("list_children", RD, <<>>, <<>>),
          Command("search_files", <<>>, <<"b">>, <<>>),
          Command("get_directory_size", RD, <<>>, <<>>),
          Command("database_has_files", <<>>, <<>>, <<>>)}

\* Result<T, Error> of a handler; rows, num and flag carry T
NoRet == [status |-> "none", rows |-> EmptyBag, num |-> 0, flag |-> FALSE]
Err   == [NoRet EXCEPT !.status = "err"]
OkRows(b) == [NoRet EXCEPT !.status = "ok", !.rows = b]
OkNum(n)  == [NoRet EXCEPT !.status = "ok", !.num = n]
OkFlag(t) == [NoRet EXCEPT !.status = "ok", !.flag = t]
OkUnit    == [NoRet EXCEPT !.status = "ok"]

NoTx == [active |-> FALSE, data |-> EmptyBag]

NoHist ==
    [walk       |-> {},       \* paths the walk set out to yield
     skipped    |-> {},       \* paths dropped by the iterator's filters
     statFailed |-> {},       \* paths whose get_file_meta failed
     insFailed  |-> {},       \* paths whose insert_file_meta failed
     upserted   |-> {},       \* the FileMeta rows upserted
     fsTouched  |-> FALSE,    \* the tree changed since the walk began
     commits    |-> 0,        \* successful commits of this crawl
     before     |-> EmptyBag] \* main_table when the crawl began

NoLast == [root |-> <<>>, insFailed |-> FALSE]

Visited(h) ==
    h.skipped \cup h.statFailed \cup h.insFailed \cup {m.path : m \in h.upserted}

\* what statements on the connection read: inside a transaction, its data
View == IF tx.active THEN tx.data ELSE db

----------------------------------------------------------------------------
(* The handlers *)

\* a lock that is always granted
MutexIgnored(h) == TRUE

\* db.0.lock(): granted when no MutexGuard of the connection is alive.
\* No handler panics while it holds the guard, so the mutex is never
\* poisoned and map_err(|_| Error::MutexPoison) is never taken.
MutexFree(h) == h = NoProc

\* a transaction that starts from an empty table
TxStartEmpty(table) == EmptyBag

\* conn.transaction(): the transaction starts from the committed table
TxStart(table) == table

\* a walk that stops at the first entry that fails
AbortWalk(rest) == <<>>

\* the Err arms of the loop body fall through to the next entry
AfterEntryError(rest) == rest

Finish(p, r) ==
    /\ ret' = [ret EXCEPT ![p] = r]
    /\ pc'  = [pc EXCEPT ![p] = "ret"]

\* a command is invoked and its first statement, db.0.lock(), returns
Lock(p, o) ==
    /\ pc[p] = "idle"
    /\ MutexFree(holder)
    /\ holder' = p
    /\ op' = [op EXCEPT ![p] = o]
    /\ pc' = [pc EXCEPT ![p] = IF IsCrawl(o) THEN "begin" ELSE "query"]
    /\ UNCHANGED <<fs, db, tx, ret, queue, hist, last>>

list_children(p) ==
    /\ pc[p] = "query"
    /\ op[p].cmd = "list_children"
    /\ \/ Finish(p, OkRows(ListChildren(View, op[p].path)))
       \/ Finish(p, Err)
    /\ UNCHANGED <<fs, db, tx, holder, op, queue, hist, last>>

search_files(p) ==
    /\ pc[p] = "query"
    /\ op[p].cmd = "search_files"
    /\ \/ Finish(p, OkRows(SearchFiles(View, op[p].frag, op[p].ext)))
       \/ Finish(p, Err)
    /\ UNCHANGED <<fs, db, tx, holder, op, queue, hist, last>>

get_directory_size(p) ==
    /\ pc[p] = "query"
    /\ op[p].cmd = "get_directory_size"
    /\ \/ Finish(p, OkNum(GetDirectorySize(View, op[p].path)))
       \/ Finish(p, Err)
    /\ UNCHANGED <<fs, db, tx, holder, op, queue, hist, last>>

database_has_files(p) ==
    /\ pc[p] = "query"
    /\ op[p].cmd = "database_has_files"
    /\ \/ Finish(p, OkFlag(DatabaseHasFiles(View)))
       \/ Finish(p, Err)
    /\ UNCHANGED <<fs, db, tx, holder, op, queue, hist, last>>

\* transfer_to_sqlite, conn.transaction()?
Begin(p) ==
    /\ pc[p] = "begin"
    /\ \/ /\ tx' = [active |-> TRUE, data |-> TxStart(db)]
          /\ queue' = [queue EXCEPT ![p] = WalkDir(fs, op[p].path)]
          /\ hist' = [hist EXCEPT ![p] =
                [NoHist EXCEPT !.before = db,
                               !.walk = {e.path : e \in
                                   {WalkDir(fs, op[p].path)[i] :
                                       i \in DOMAIN WalkDir(fs, op[p].path)}}]]
          /\ pc' = [pc EXCEPT ![p] = "walk"]
          /\ UNCHANGED ret
       \/ /\ Finish(p, Err)
          /\ UNCHANGED <<tx, queue, hist>>
    /\ UNCHANGED <<fs, db, holder, op, last>>

\* transfer_to_sqlite, one turn of the for loop: the iterator's filters,
\* get_file_meta, insert_file_meta
Visit(p) ==
    /\ pc[p] = "walk"
    /\ queue[p] # <<>>
    /\ LET e    == Head(queue[p])
           rest == Tail(queue[p])
           got  == GetFileMeta(fs, e.path)
       IN  IF ~e.ok \/ e.file_type = "symlink" \/ IsSkipped(e.path)
           THEN /\ hist' = [hist EXCEPT ![p].skipped = @ \cup {e.path}]
                /\ queue' = [queue EXCEPT ![p] = rest]
                /\ UNCHANGED tx
           ELSE IF ~got.ok
           THEN /\ hist' = [hist EXCEPT ![p].statFailed = @ \cup {e.path}]
                /\ queue' = [queue EXCEPT ![p] = AfterEntryError(rest)]
                /\ UNCHANGED tx
           ELSE \/ /\ tx' = [tx EXCEPT !.data = InsertFileMeta(@, got.meta)]
                   /\ hist' = [hist EXCEPT ![p].upserted = @ \cup {got.meta}]
                   /\ queue' = [queue EXCEPT ![p] = rest]
                \/ /\ hist' = [hist EXCEPT ![p].insFailed = @ \cup {e.path}]
                   /\ queue' = [queue EXCEPT ![p] = AfterEntryError(rest)]
                   /\ UNCHANGED tx
    /\ UNCHANGED <<fs, db, holder, pc, op, ret, last>>

\* transfer_to_sqlite, tx.commit()? after the loop; a failed commit drops
\* the transaction, which rolls it back
Commit(p) ==
    /\ pc[p] = "walk"
    /\ queue[p] = <<>>
    /\ \/ /\ db' = tx.data
          /\ hist' = [hist EXCEPT ![p].commits = @ + 1]
          /\ Finish(p, OkUnit)
       \/ /\ Finish(p, Err)
          /\ UNCHANGED <<db, hist>>
    /\ tx' = NoTx
    /\ UNCHANGED <<fs, holder, op, queue, last>>

\* the handler returns: the MutexGuard goes out of scope on every path
Return(p) ==
    /\ pc[p] = "ret"
    /\ holder' = NoProc
    /\ last' = IF IsCrawl(op[p]) /\ ret[p].status = "ok"
               THEN IF hist[p].fsTouched THEN NoLast
                    ELSE [root |-> op[p].path,
                          insFailed |-> hist[p].insFailed # {}]
               ELSE last
    /\ pc' = [pc EXCEPT ![p] = "idle"]
    /\ op' = [op EXCEPT ![p] = NoCommand]
    /\ ret' = [ret EXCEPT ![p] = NoRet]
    /\ queue' = [queue EXCEPT ![p] = <<>>]
    /\ hist' = [hist EXCEPT ![p] = NoHist]
    /\ UNCHANGED <<fs, db, tx>>

\* the environment: a file is created, removed, rewritten or made unreadable
FsChange(path, st) ==
    /\ st # fs[path]
    /\ fs' = [fs EXCEPT ![path] = st]
    /\ hist' = [p \in Procs |->
                  IF IsCrawl(op[p]) /\ pc[p] \in {"walk", "ret"}
                  THEN [hist[p] EXCEPT !.fsTouched = TRUE]
                  ELSE hist[p]]
    /\ last' = NoLast
    /\ UNCHANGED <<db, tx, holder, pc, op, ret, queue>>

----------------------------------------------------------------------------
(* The crawl specification: the state after main()'s setup, every command *)

Init ==
    /\ fs = InitialFs
    /\ db = CreateTable
    /\ tx = NoTx
    /\ holder = NoProc
    /\ pc = [p \in Procs |-> "idle"]
    /\ op = [p \in Procs |-> NoCommand]
    /\ ret = [p \in Procs |-> NoRet]
    /\ queue = [p \in Procs |-> <<>>]
    /\ hist = [p \in Procs |-> NoHist]
    /\ last = NoLast

Next ==
    \/ \E p \in Procs, o \in Commands : Lock(p, o)
    \/ \E p \in Procs : list_children(p)
    \/ \E p \in Procs : search_files(p)
    \/ \E p \in Procs : get_directory_size(p)
    \/ \E p \in Procs : database_has_files(p)
    \/ \E p \in Procs : Begin(p)
    \/ \E p \in Procs : Visit(p)
    \/ \E p \in Procs : Commit(p)
    \/ \E p \in Procs : Return(p)
    \/ \E path \in MutableFiles, st \in FileStates : FsChange(path, st)

Spec == Init /\ [][Next]_vars

----------------------------------------------------------------------------
(* The query specification: any index of at most MaxRecords rows, and the  *)
(* read commands on the directories, fragments and extensions below        *)

QA   == <<"r", SEP, "a">>
QAB  == <<"r", SEP, "a", SEP, "b">>
QC   == <<"r", SEP, "c">>
QX   == <<"r", "X">>
QPct == <<"r", SEP, "%">>
QAT  == <<"r", SEP, "a", ".", "t">>
QABT == <<"r", SEP, "a", "b", ".", "t">>
QAM  == <<"r", SEP, "a", ".", "m">>

QueryPaths == {R, QA, QAB, QC, QX, QPct, QAT, QABT, QAM}

QueryCommands ==
    {Command("list_children", d, <<>>, <<>>) :
        d \in {R, R \o <<SEP>>, QA, <<"R">>, <<"%">>}}
    \cup {Command("search_files", <<>>, f, e) :
        f \in {<<>>, <<"a">>, <<"A">>, <<"_">>}, e \in {<<>>, <<"t">>, <<"T">>}}
    \cup {Command("get_directory_size", d, <<>>, <<>>) :
        d \in {R, QA, <<"R">>, <<"r", "_">>, <<"z">>}}
    \cup {Command("database_has_files", <<>>, <<>>, <<>>)}

InitQuery ==
    /\ fs = InitialFs
    /\ \E S \in SUBSET QueryPaths :
         /\ Cardinality(S) <= MaxRecords
         /\ \E size \in [S -> 1..MaxSize] :
              db = SetToBag({FileMeta(path, size[path], 0) : path \in S})
    /\ tx = NoTx
    /\ holder = NoProc
    /\ pc = [p \in Procs |-> "idle"]
    /\ op = [p \in Procs |-> NoCommand]
    /\ ret = [p \in Procs |-> NoRet]
    /\ queue = [p \in Procs |-> <<>>]
    /\ hist = [p \in Procs |-> NoHist]
    /\ last = NoLast

NextQuery ==
    \/ \E p \in Procs, o \in QueryCommands : Lock(p, o)
    \/ \E p \in Procs : list_children(p)
    \/ \E p \in Procs : search_files(p)
    \/ \E p \in Procs : get_directory_size(p)
    \/ \E p \in Procs : database_has_files(p)
    \/ \E p \in Procs : Return(p)

SpecQuery == InitQuery /\ [][NextQuery]_vars

----------------------------------------------------------------------------
(* Vocabulary of the properties *)

Returned(p, cmd) ==
    pc[p] = "ret" /\ op[p].cmd = cmd /\ ret[p].status = "ok"

Crawled(p) == Returned(p, "transfer_to_sqlite")

\* a directory argument with one trailing separator removed
Normalized(dir) ==
    IF dir # <<>> /\ dir[Len(dir)] = SEP THEN SubSeq(dir, 1, Len(dir) - 1) ELSE dir

\* path lies under dir, across a separator
Under(path, dir) == StartsWith(path, Normalized(dir) \o <<SEP>>)

IsDirectChild(path, dir) ==
    Under(path, dir) /\ CountSep(path) = CountSep(Normalized(dir)) + 1

\* the entries of the tree at or below root
AtOrBelow(root) == {e \in FsPaths : e = root \/ Under(e, root)}

RowsAt(table, path) == SelectRows(table, {r \in Rows(table) : r.path = path})

\* an entry the crawl is meant to index
Indexable(e) == fs[e].kind \notin {"absent", "symlink"} /\ ~IsSkipped(e)

----------------------------------------------------------------------------
(* Properties of the queries, under SpecQuery *)

\* C1: list_children(P) returns exactly the rows that are direct children of
\* P: the path starts with P (one trailing separator removed) and one
\* separator, and holds exactly depth(P) + 1 separators.
C1_ExactlyDirectChildren ==
    \A p \in Procs :
        Returned(p, "list_children") =>
            ret[p].rows =
                SelectRows(db, {r \in Rows(db) : IsDirectChild(r.path, op[p].path)})

\* C2: list_children(P) never returns a row whose path does not begin with P
\* followed by a separator, whatever characters P holds.
C2_OnlyPathsUnderDir ==
    \A p \in Procs :
        Returned(p, "list_children") =>
            \A r \in Rows(ret[p].rows) : Under(r.path, op[p].path)

\* C3: get_directory_size(P) is the sum of size over exactly the rows whose
\* path begins with the literal string P, and 0 when there is none.
C3_LiteralPrefixSum ==
    \A p \in Procs :
        Returned(p, "get_directory_size") =>
            ret[p].num =
                SumSize(db, {r \in Rows(db) : StartsWith(r.path, op[p].path)})

\* C4: search_files(f, e) returns exactly the rows whose name contains f as a
\* substring and, when e is not empty, whose extension equals e; an empty e
\* applies no extension filter.
C4_SubstringAndExtension ==
    \A p \in Procs :
        Returned(p, "search_files") =>
            ret[p].rows =
                SelectRows(db, {r \in Rows(db) :
                    /\ Contains(r.name, op[p].frag)
                    /\ op[p].ext # <<>> => r.extension = Some(op[p].ext)})

----------------------------------------------------------------------------
(* Properties of the crawl and of the lock, under Spec *)

\* the crawl that returned before this one was a committed crawl of the
\* same root, and the tree has not changed since that crawl began
SecondCrawl(p) == Crawled(p) /\ last.root = op[p].path

C6_UniquePathAndReplace ==
    /\ \A path \in PathsOf(db) : BagCardinality(RowsAt(db, path)) = 1
    /\ \A p \in Procs :
         Crawled(p) =>
             \A m \in hist[p].upserted : RowsAt(db, m.path) = SetToBag({m})

C6_Witness ==
    \E p \in Procs :
        /\ Crawled(p)
        /\ \E m \in hist[p].upserted, r \in Rows(hist[p].before) :
             r.path = m.path /\ r.size # m.size

C8_AppendReplaceOnly ==
    [][/\ PathsOf(db) \subseteq PathsOf(db')
       /\ DatabaseHasFiles(db) =>
            \A p \in Procs :
                (pc[p] = "query" /\ Returned(p, "database_has_files")')
                    => ret'[p].flag]_vars

C8_Witness ==
    \E p \in Procs :
        /\ Crawled(p)
        /\ op[p].path = RD
        /\ ~hist[p].fsTouched
        /\ fs[RDB] = Absent
        /\ RDB \in PathsOf(db)

\* C9: a crawl whose entries fail in get_file_meta or insert_file_meta still
\* visits every entry of the walk, commits once, after the walk, the rows
\* of the entries that succeeded, and returns Ok; it returns an error only
\* from conn.transaction() or tx.commit().
C9_EntryFailuresNotFatal ==
    \A p \in Procs :
        IsCrawl(op[p]) =>
            /\ pc[p] = "walk" => db = hist[p].before /\ hist[p].commits = 0
            /\ Crawled(p) =>
                 /\ Visited(hist[p]) = hist[p].walk
                 /\ hist[p].commits = 1
                 /\ \A m \in hist[p].upserted : CopiesIn(m, db) = 1
                 /\ \A path \in PathsOf(db) \cup PathsOf(hist[p].before) :
                      path \notin {m.path : m \in hist[p].upserted} =>
                          RowsAt(db, path) = RowsAt(hist[p].before, path)
            /\ pc[p] = "ret" /\ ret[p].status = "err" =>
                 /\ hist[p].commits = 0
                 /\ hist[p].walk = {} \/ Visited(hist[p]) = hist[p].walk

C9_Witness ==
    \E p \in Procs :
        /\ Crawled(p)
        /\ op[p].path = R
        /\ R \in hist[p].insFailed
        /\ RDB \in hist[p].statFailed
        /\ RD \in PathsOf(db) \ PathsOf(hist[p].before)

\* C10: at most one command is past its lock() at any time and it is the
\* holder of the guard; a transaction is open only inside the crawl that
\* holds the guard, so no query reads a partly applied crawl; and a command
\* that has returned, with Ok or with an error, holds the guard no longer.
C10_OneOperationAtATime ==
    /\ Cardinality({p \in Procs : pc[p] # "idle"}) <= 1
    /\ \A p \in Procs : pc[p] # "idle" <=> holder = p
    /\ tx.active =>
         \E p \in Procs : IsCrawl(op[p]) /\ pc[p] = "walk" /\ holder = p
    /\ \A p \in Procs : pc[p] = "query" => ~tx.active /\ View = db

C10_Witness ==
    \E p \in Procs :
        /\ pc[p] = "walk"
        /\ tx.active
        /\ tx.data # db
        /\ \A q \in Procs \ {p}, o \in Commands :
             pc[q] = "idle" /\ ~ENABLED Lock(q, o)

====
